---------------------------- MODULE Spec2Model ----------------------------
(***************************************************************************)
(* Model of supreme::sensorimotor (src/src/sensorimotor.hpp): the frame    *)
(* parser (receive_data), the receive loop (receive_response), the         *)
(* statistics tracker, the control law (execute_controller) and the        *)
(* device proxy operations (ping, execute_cycle, setters).                 *)
(*                                                                         *)
(* Numbers.  The doubles of the source are kept as fixed-point integers:   *)
(*   position, voltage_backemf, output_voltage, targets, limits, gains,    *)
(*   err_int, z              in units of 1/Unit   (Unit = 512 * 25)        *)
(*   current                 in units of current_scale  (the raw word)     *)
(*   voltage_supply          in units of voltage_scale  (the raw word)     *)
(*   temperature             in units of 1/100  (the signed word)          *)
(* A product of two fixed-point numbers is rounded to the nearest unit.    *)
(* Products are formed from quotients and remainders by Unit so that no    *)
(* intermediate value leaves the 32-bit range of the model checker.        *)
(* Bytes are 0..255, words 0..65535, the checksum is kept modulo 256.      *)
(***************************************************************************)
EXTENDS Integers, Sequences, FiniteSets, TLC

VARIABLES
    motor_id,         \* const uint8_t motor_id
    do_request,       \* bool do_request
    is_responding,    \* bool is_responding
    direction,        \* int16_t direction
    data,             \* interface_data data
    err_int, z,
    target_position, target_voltage, target_csl_mode, target_csl_fb,
    limit_lo, limit_hi, Kp, phi_disable,
    syncstate,        \* command_state_t syncstate
    statistics,       \* Statistics_t statistics
    controller,       \* Controller_t controller
    recv_queue,       \* com: bytes read from the line, not yet consumed
    checksum,         \* com: running receive checksum (mod 256)
    wire,             \* com: bytes the device has sent that no read_msg has pulled yet
    sent,             \* com: the frame handed to the last send_msg
    pc,               \* "idle", or the position inside receive_response: "recv", "cond"
    t_us, timeout_us, \* receive_response: local t_us and its parameter
    op,               \* history: the step taken last
    ret,              \* history: what the last receive_data call returned
    data0,            \* history: data when the running receive cycle started
    stats0,           \* history: statistics when the running receive cycle started
    controller0,      \* history: controller before the last controller or setter call
    stream,           \* history: the bytes the device answered in this cycle
    fresh,            \* history: no stale inbound byte was pending when the cycle started
    eaten,            \* history: bytes consumed with get_byte since the last reset_checksum
    nexec,            \* history: execute_controller calls made in a row
    snapshot,         \* history: the Statistics_t returned last (execute_cycle, receive_response)
    ncycles, ncalls   \* history: receive cycles started, other calls made

ctlVars  == <<err_int, z, target_position, target_voltage, target_csl_mode,
              target_csl_fb, limit_lo, limit_hi, Kp, phi_disable, controller, direction>>
comVars  == <<recv_queue, checksum, wire, sent>>
loopVars == <<pc, t_us, timeout_us>>
histVars == <<data0, stats0, controller0, stream, fresh, eaten, ret, nexec>>
vars == <<motor_id, do_request, is_responding, data, syncstate, statistics,
          ctlVars, comVars, loopVars, histVars, snapshot, op, ncycles, ncalls>>

----------------------------------------------------------------------------
(* Bounds of the model *)

\* receive_response's default budget; 1000 in the source (max_response_time_us),
\* scaled down so that every arrival time within the budget is explored
MaxResponseTime == 4
\* ping's budget; 50 in the source (ping_timeout_us), scaled down alike
PingTimeout == 2
\* receive cycles (execute_cycle with requests on, ping) per behaviour of Spec
MaxCycles == 1
\* receive cycles per behaviour of SpecRecv
MaxRecvCycles == 2
\* controller and setter calls per behaviour of Spec
MaxCalls == 2
\* controller and setter calls per behaviour of SpecCtl
MaxCtlCalls == 5
\* stray bytes ahead of the frame in SpecSync
MaxStray == 3
\* setter calls per behaviour of SpecEnc
MaxEncCalls == 3
\* the budgets of SpecTrickle, long enough for a frame to arrive byte by byte
TrickleResponseTime == 14
TricklePingTimeout == 4

----------------------------------------------------------------------------
(* Arithmetic *)

Unit == 512 * 25

Abs(x) == IF x < 0 THEN -x ELSE x
Min(a, b) == IF a < b THEN a ELSE b
Max(a, b) == IF a > b THEN a ELSE b

\* n / d rounded to the nearest integer, halves away from zero (d > 0)
RoundDiv(n, d) == IF n >= 0 THEN (2 * n + d) \div (2 * d)
                            ELSE -((2 * (-n) + d) \div (2 * d))

\* product of two fixed-point numbers: a * b / Unit, rounded to the nearest unit
Mul(a, b) ==
    LET aq == a \div Unit
        ar == a % Unit
        bq == b \div Unit
        br == b % Unit
    IN  aq * bq * Unit + aq * br + ar * bq + RoundDiv(ar * br, Unit)

\* the fixed-point number n/d
Fx(n, d) == (n * Unit) \div d

RECURSIVE SumSeq(_)
SumSeq(s) == IF s = <<>> THEN 0 ELSE Head(s) + SumSeq(Tail(s))

pos(value) == Max(0, value)
neg(value) == Min(0, value)
posneg(value, p, n) == Mul(p, pos(value)) + Mul(n, neg(value))

\* (word - 512) / 512.0, in units of 1/Unit
uint_to_sc(word) == (word - 512) * 25

\* static_cast<int16_t>(word)
int16(word) == IF word >= 32768 THEN word - 65536 ELSE word

\* clip of common/modules.h: x restricted to [-bound, +bound]
clip(x, bound) == Min(Max(x, -bound), bound)

----------------------------------------------------------------------------
(* The channel (communication_interface): a byte queue with a running      *)
(* checksum.  get_byte consumes the front byte and adds it to the running  *)
(* checksum, pop consumes it without touching the checksum; the checksum   *)
(* is good when everything consumed since reset_checksum, the trailing     *)
(* checksum byte included, sums to 0 modulo 256.  A channel value is a     *)
(* record [q, cs, eaten]: the readable queue, the running checksum and the *)
(* bytes consumed with get_byte since the last reset.  Reading past the    *)
(* end of the queue yields 0.                                              *)

Chan(q, cs, e) == [q |-> q, cs |-> cs, eaten |-> e]

com_empty(c) == c.q = <<>>
com_size(c)  == Len(c.q)
com_front(c) == IF c.q = <<>> THEN 0 ELSE Head(c.q)
com_rest(c)  == IF c.q = <<>> THEN <<>> ELSE Tail(c.q)
com_pop(c)   == [c EXCEPT !.q = com_rest(c)]
com_reset_checksum(c) == [c EXCEPT !.cs = 0, !.eaten = <<>>]
com_get_byte(c) == [q |-> com_rest(c),
                    cs |-> (c.cs + com_front(c)) % 256,
                    eaten |-> Append(c.eaten, com_front(c))]
com_is_checksum_ok(c) == c.cs = 0

\* get_word: two bytes, big-endian; Word(c) is the value, com_get_word(c) the channel after
Word(c) == com_front(c) * 256 + com_front(com_get_byte(c))
com_get_word(c) == com_get_byte(com_get_byte(c))

\* the byte enqueue_checksum appends to an outgoing frame
ChecksumByte(bytes) == (256 - (SumSeq(bytes) % 256)) % 256
WithChecksum(bytes) == Append(bytes, ChecksumByte(bytes))

----------------------------------------------------------------------------
(* receive_data: one call of the parser on the channel c that read_msg has *)
(* just refreshed.  The result is the record                               *)
(*   [ret, syncstate, data, is_responding, com]                            *)

Parsed(r, st, d, resp, c) ==
    [ret |-> r, syncstate |-> st, data |-> d, is_responding |-> resp, com |-> c]

\* state_data_ready with the length of a ping response
state_data_ready_short(c) == com_size(c) > 2

\* lines 308 and 325: the whole frame of the command is in the queue
state_data_ready(c) == com_size(c) > 12
ping_ready(c) == com_size(c) > 2

\* resolve with the checksum left out, and with "or" for "and"
resolve_no_checksum(id, mid, ok) == IF id = mid THEN "completed" ELSE "invalid"
resolve_either(id, mid, ok) == IF id = mid \/ ok THEN "completed" ELSE "invalid"

\* lines 319 and 329: (motor_id == mid and com.is_checksum_ok()) ? completed : invalid
resolve(id, mid, ok) == IF id = mid /\ ok THEN "completed" ELSE "invalid"

\* lines 312-316: the five words, in wire order; c is the channel after the id byte
decode_state(c, d, dir) ==
    LET c1 == com_get_word(c)
        c2 == com_get_word(c1)
        c3 == com_get_word(c2)
        c4 == com_get_word(c3)
    IN  [d EXCEPT !.position        = uint_to_sc(Word(c)) * dir,
                  !.current         = Word(c1),
                  !.voltage_backemf = uint_to_sc(Word(c2)),
                  !.voltage_supply  = Word(c3),
                  !.temperature     = int16(Word(c4))]

\* the channel after the five words and the checksum byte
after_state(c) ==
    com_get_byte(com_get_word(com_get_word(com_get_word(com_get_word(com_get_word(c))))))

\* case sync0, lines 278-288
receive_sync0(c, st, d, resp) ==
    IF com_empty(c) THEN Parsed(FALSE, st, d, resp, c)
    ELSE IF com_front(c) = 255
         THEN Parsed(TRUE, "sync1", d, resp, com_get_byte(com_reset_checksum(c)))
         ELSE Parsed(TRUE, st, d, resp, com_pop(c))

\* receive_sync1 staying in sync1 when it drops a byte
receive_sync1_staying(c, st, d, resp) ==
    IF com_empty(c) THEN Parsed(FALSE, st, d, resp, c)
    ELSE IF com_front(c) = 255
         THEN Parsed(TRUE, "processing", d, resp, com_get_byte(c))
         ELSE Parsed(TRUE, st, d, resp, com_pop(c))

\* case sync1, lines 290-300
receive_sync1(c, st, d, resp) ==
    IF com_empty(c) THEN Parsed(FALSE, st, d, resp, c)
    ELSE IF com_front(c) = 255
         THEN Parsed(TRUE, "processing", d, resp, com_get_byte(c))
         ELSE Parsed(TRUE, "sync0", d, resp, com_pop(c))

\* receive_state_data decoding the words whatever the id byte is
receive_state_data_any_id(c, st, d, resp, id, dir) ==
    IF state_data_ready(c)
    THEN LET c1  == com_get_byte(c)
             mid == com_front(c1)
             c2  == com_get_byte(c1)
             c3  == after_state(c2)
         IN  Parsed(TRUE, resolve(id, mid, com_is_checksum_ok(c3)),
                    decode_state(c2, d, dir), resp, c3)
    ELSE Parsed(FALSE, st, d, resp, c)

\* case 0x80, lines 307-322
receive_state_data(c, st, d, resp, id, dir) ==
    IF state_data_ready(c)
    THEN LET c1  == com_get_byte(c)          \* eat command byte
             mid == com_front(c1)
             c2  == com_get_byte(c1)
             d2  == IF mid = id THEN decode_state(c2, d, dir) ELSE d
             c3  == IF mid = id THEN after_state(c2) ELSE c2
         IN  Parsed(TRUE, resolve(id, mid, com_is_checksum_ok(c3)), d2, resp, c3)
    ELSE Parsed(FALSE, st, d, resp, c)

\* case 0xE1, lines 324-333
receive_ping_response(c, st, d, resp, id) ==
    IF ping_ready(c)
    THEN LET c1  == com_get_byte(c)          \* eat command byte
             mid == com_front(c1)
             c3  == com_get_byte(com_get_byte(c1))   \* id, checksum
             st2 == resolve(id, mid, com_is_checksum_ok(c3))
         IN  Parsed(TRUE, st2, d, st2 = "completed", c3)
    ELSE Parsed(FALSE, st, d, resp, c)

\* case processing, lines 302-343
receive_processing(c, st, d, resp, id, dir) ==
    IF com_empty(c) THEN Parsed(FALSE, st, d, resp, c)
    ELSE CASE com_front(c) = 128 -> receive_state_data(c, st, d, resp, id, dir)
           [] com_front(c) = 225 -> receive_ping_response(c, st, d, resp, id)
           [] OTHER              -> Parsed(FALSE, "invalid", d, resp, c)

\* receive_data seeking a sync byte again once the frame is resolved
receive_data_restart(c, st, d, resp, id, dir) ==
    CASE st = "sync1"      -> receive_sync1(c, st, d, resp)
      [] st = "processing" -> receive_processing(c, st, d, resp, id, dir)
      [] OTHER             -> receive_sync0(c, st, d, resp)

\* lines 273-360, after com.read_msg()
receive_data(c, st, d, resp, id, dir) ==
    CASE st = "sync0"      -> receive_sync0(c, st, d, resp)
      [] st = "sync1"      -> receive_sync1(c, st, d, resp)
      [] st = "processing" -> receive_processing(c, st, d, resp, id, dir)
      [] OTHER             -> Parsed(FALSE, st, d, resp, c)   \* invalid, completed

is_pending(st)    == st # "completed" /\ st # "invalid"
is_data_valid(st) == st # "invalid"

\* Statistics_t::update, lines 92-99; avg_resp_time_us is kept in 1/10000 us
statistics_update(s, time_us, timeout, inval) ==
    [errors           |-> IF inval THEN s.errors + 1 ELSE s.errors,
     timeouts         |-> IF timeout THEN s.timeouts + 1 ELSE s.timeouts,
     faulted          |-> timeout \/ inval,
     response_time_us |-> time_us,
     avg_resp_time_us |-> (99 * s.avg_resp_time_us) \div 100 + 100 * time_us,
     max_resp_time_us |-> Max(s.max_resp_time_us, time_us)]

\* Statistics_t(), lines 84-90
Statistics_t == [errors |-> 0, timeouts |-> 0, faulted |-> FALSE, response_time_us |-> 0,
                 avg_resp_time_us |-> 0, max_resp_time_us |-> 0]

\* line 268: the timeout flag receive_response passes to update
timed_out(t, timeout) == t >= timeout

\* interface_data(), lines 37-44
interface_data == [output_voltage |-> 0, position |-> 0, current |-> 0,
                   voltage_backemf |-> 0, voltage_supply |-> 0, temperature |-> 0]

----------------------------------------------------------------------------
(* Outgoing frames, lines 221-248 *)

enqueue_command_data_request(id) == WithChecksum(<<255, 255, 192, id>>)
enqueue_command_ping(id) == WithChecksum(<<255, 255, 224, id>>)

\* voltage = clip(voltage, 0.5) * direction
corrected_voltage(voltage, dir) == clip(voltage, Fx(1, 2)) * dir
\* pwm_byte without round(): the cast truncates
pwm_byte_truncated(voltage) == ((Abs(voltage) * 255) \div Unit) % 256

\* static_cast<uint8_t>(round(std::abs(voltage) * 255))
pwm_byte(voltage) == RoundDiv(Abs(voltage) * 255, Unit) % 256

enqueue_command_set_voltage(id, voltage, dir) ==
    LET v == corrected_voltage(voltage, dir)
    IN  WithChecksum(<<255, 255, IF v >= 0 THEN 176 ELSE 177, id, pwm_byte(v)>>)

\* send_command, lines 250-257: the frame it enqueues
send_command_frame ==
    IF controller # "none"
    THEN enqueue_command_set_voltage(motor_id, target_voltage, direction)
    ELSE enqueue_command_data_request(motor_id)

----------------------------------------------------------------------------
(* The control law, lines 171-208.  The result is the record               *)
(*   [controller, err_int, z, target_voltage, output_voltage]              *)

\* cutoff without the absolute value
cutoff_signed(phi, limit) == phi >= limit

\* line 176: std::abs(phi) >= phi_disable
cutoff(phi, limit) == Abs(phi) >= limit

\* lines 193-195
csl_mode(m) == clip(m, Unit)
csl_gi(m)   == posneg(csl_mode(m), Fx(24, 10), 16 * Unit)
csl_gf(m, fb) == Mul(fb, pos(csl_mode(m)))

\* csl_clamp without the clamp from above
csl_clamp_from_below(zz, phi, gi, lo, hi) ==
    IF phi < lo THEN Max(zz, Mul(gi, phi)) ELSE zz

\* lines 198-199: z clamped at the limits
csl_clamp(zz, phi, gi, lo, hi) ==
    LET z1 == IF phi > hi THEN Min(zz, Mul(gi, phi)) ELSE zz
    IN  IF phi < lo THEN Max(z1, Mul(gi, phi)) ELSE z1

\* line 201
csl_u(zz, phi, gi) == clip(-Mul(gi, phi) + zz, Unit)

\* controller_step without the else branch of line 205: z is kept outside csl
controller_step_keeping_z ==
    LET phi  == data.position
        ctl  == IF cutoff(phi, phi_disable) THEN "none" ELSE controller
        err  == target_position - phi
        gi   == csl_gi(target_csl_mode)
        gf   == csl_gf(target_csl_mode, target_csl_fb)
        zc   == csl_clamp(z, phi, gi, limit_lo, limit_hi)
        u    == csl_u(zc, phi, gi)
        tv1  == IF ctl = "position" THEN Mul(Kp, err) ELSE target_voltage
        ov1  == IF ctl = "position" THEN Mul(Kp, err) ELSE data.output_voltage
    IN  [controller     |-> ctl,
         err_int        |-> IF ctl = "position" THEN clip(err_int + err, Unit) ELSE 0,
         z              |-> IF ctl = "csl" THEN Mul(gi, phi) + Mul(gf, u) ELSE z,
         target_voltage |-> IF ctl = "csl" THEN Mul(Fx(3, 4), u) ELSE tv1,
         output_voltage |-> IF ctl = "csl" THEN Mul(Fx(3, 4), u) ELSE ov1]

controller_step ==
    LET phi  == data.position
        ctl  == IF cutoff(phi, phi_disable) THEN "none" ELSE controller
        err  == target_position - phi
        gi   == csl_gi(target_csl_mode)
        gf   == csl_gf(target_csl_mode, target_csl_fb)
        zc   == csl_clamp(z, phi, gi, limit_lo, limit_hi)
        u    == csl_u(zc, phi, gi)
        tv1  == IF ctl = "position" THEN Mul(Kp, err) ELSE target_voltage
        ov1  == IF ctl = "position" THEN Mul(Kp, err) ELSE data.output_voltage
    IN  [controller     |-> ctl,
         err_int        |-> IF ctl = "position" THEN clip(err_int + err, Unit) ELSE 0,
         z              |-> IF ctl = "csl" THEN Mul(gi, phi) + Mul(gf, u) ELSE Mul(gi, phi),
         target_voltage |-> IF ctl = "csl" THEN Mul(Fx(3, 4), u) ELSE tv1,
         output_voltage |-> IF ctl = "csl" THEN Mul(Fx(3, 4), u) ELSE ov1]

----------------------------------------------------------------------------
(* Inputs *)

MotorIds == {5}

Word2(w) == <<w \div 256, w % 256>>

\* FF FF 80 id pos cur uba usu tmp chk
StateFrame(id, p, c, b, v, t) ==
    WithChecksum(<<255, 255, 128, id>> \o Word2(p) \o Word2(c) \o Word2(b)
                 \o Word2(v) \o Word2(t))
\* FF FF E1 id chk
PingFrame(id) == WithChecksum(<<255, 255, 225, id>>)

\* f with its i-th byte replaced by b
Corrupt(f, i, b) == [f EXCEPT ![i] = b]

\* position words: 0.0, 0.836 (above limit_hi), 0.953 and -0.953 (beyond phi_disable)
PosWords == {512, 940, 1000, 24}
TmpWords == {10000, 65436}

WellFormedStateFrames(id) ==
    {StateFrame(id, p, 100, 512, 50, t) : p \in PosWords, t \in TmpWords}
    \cup {StateFrame(id, 7168, 100, 512, 50, 10000)}

\* the frames whose single-byte corruptions are fed to the parser
BaseFrames(id) == {StateFrame(id, 1000, 100, 512, 50, 10000),
                   StateFrame(id, 7168, 100, 512, 50, 10000)}
CorruptValues == {0, 225, 255}

CorruptedStateFrames(id) ==
    {Corrupt(f, i, b) : f \in BaseFrames(id), i \in 1..15, b \in CorruptValues}
    \ BaseFrames(id)

CorruptedPingFrames(id) ==
    {Corrupt(PingFrame(id), i, b) : i \in 1..5, b \in CorruptValues} \ {PingFrame(id)}

\* answers of the device explored by the parser specification
RichStreams(id) ==
    {<<>>}
    \cup WellFormedStateFrames(id)
    \cup {StateFrame(id + 1, 1000, 100, 512, 50, 10000), PingFrame(id), PingFrame(id + 1)}
    \cup {WithChecksum(<<255, 255, 192, id>>)}
    \cup CorruptedStateFrames(id) \cup CorruptedPingFrames(id)

\* answers of the device in later cycles and under the full specification
PlainStreams(id) ==
    {<<>>, PingFrame(id)}
    \cup {StateFrame(id, p, 100, 512, 50, 10000) : p \in {940, 1000, 24}}

ControllerTypes == {"none", "voltage", "position", "csl"}
Voltages     == {Fx(1, 4), -Fx(3, 4)}
Positions    == {Fx(1, 2)}
CslModes     == {Unit, Fx(1, 2), -Fx(1, 2)}
CslFeedbacks == {Unit, -Unit}
Limits       == {<<-Fx(1, 2), Fx(1, 2)>>}
Gains        == {Unit}
PhiDisables  == {Fx(1, 2)}
Directions   == {-1, 1}

----------------------------------------------------------------------------
(* The state after construction, lines 56-80 and 112-117 *)

Init ==
    /\ motor_id \in MotorIds
    /\ do_request = TRUE
    /\ is_responding = FALSE
    /\ direction = 1
    /\ data = interface_data
    /\ err_int = 0
    /\ z = 0
    /\ target_position = 0
    /\ target_voltage = 0
    /\ target_csl_mode = 0
    /\ target_csl_fb = Fx(103, 100)
    /\ limit_lo = -Fx(8, 10)
    /\ limit_hi = Fx(8, 10)
    /\ Kp = Fx(8, 10)
    /\ phi_disable = Fx(9, 10)
    /\ syncstate = "sync0"
    /\ statistics = Statistics_t
    /\ controller = "none"
    /\ recv_queue = <<>>
    /\ checksum = 0
    /\ wire = <<>>
    /\ sent = <<>>
    /\ pc = "idle"
    /\ t_us = 0
    /\ timeout_us = 0
    /\ op = "init"
    /\ ret = FALSE
    /\ data0 = interface_data
    /\ stats0 = Statistics_t
    /\ controller0 = "none"
    /\ stream = <<>>
    /\ fresh = TRUE
    /\ eaten = <<>>
    /\ nexec = 0
    /\ snapshot = Statistics_t
    /\ ncycles = 0
    /\ ncalls = 0

----------------------------------------------------------------------------
(* The communication cycle *)

\* how many waiting bytes one read_msg may pull: any number when the answer
\* trickles in, all of them when it arrives whole
Arrivals(trickle) == IF trickle THEN 0..Len(wire) ELSE {Len(wire)}

\* send_command / ping up to the receive loop: read_msg pulls k stale bytes,
\* send_msg transmits frame, the device answers s, receive_response(timeout)
\* resets the parser (lines 262-263)
StartCycle(frame, k, s, timeout, name) ==
    /\ recv_queue' = recv_queue \o SubSeq(wire, 1, k)
    /\ wire' = SubSeq(wire, k + 1, Len(wire)) \o s
    /\ sent' = frame
    /\ syncstate' = "sync0"
    /\ t_us' = 0
    /\ timeout_us' = timeout
    /\ pc' = "recv"
    /\ op' = name
    /\ data0' = data
    /\ stats0' = statistics
    /\ stream' = s
    /\ fresh' = (recv_queue = <<>> /\ wire = <<>>)
    /\ ncycles' = ncycles + 1
    /\ nexec' = 0
    /\ UNCHANGED <<motor_id, do_request, data, statistics, ctlVars, checksum,
                   eaten, ret, controller0, snapshot, ncalls>>

\* execute_cycle with requests on, lines 141-146, up to the loop of receive_response
execute_cycle(S, trickle, max, timeout) ==
    /\ pc = "idle"
    /\ do_request
    /\ ncycles < max
    /\ \E k \in Arrivals(trickle), s \in S :
          StartCycle(send_command_frame, k, s, timeout, "execute_cycle")
    /\ UNCHANGED is_responding

\* execute_cycle with requests off resetting the statistics it returns
execute_cycle_off_resetting ==
    /\ pc = "idle"
    /\ ~do_request
    /\ statistics' = Statistics_t
    /\ snapshot' = Statistics_t
    /\ op' = "execute_cycle_off"
    /\ UNCHANGED <<motor_id, do_request, is_responding, data, syncstate,
                   ctlVars, comVars, loopVars, histVars, ncycles, ncalls>>

\* execute_cycle with requests off, line 142: returns Statistics_t()
execute_cycle_off ==
    /\ pc = "idle"
    /\ ~do_request
    /\ snapshot' = Statistics_t
    /\ op' = "execute_cycle_off"
    /\ UNCHANGED <<motor_id, do_request, is_responding, data, syncstate, statistics,
                   ctlVars, comVars, loopVars, histVars, ncycles, ncalls>>

\* execute_cycle with requests on in a build that defines NDEBUG, lines 141-146:
\* assert(send_command()) expands to nothing, so no frame is encoded, read_msg
\* and send_msg are not called, the device is asked nothing and answers
\* nothing; receive_response runs on what the line still holds
execute_cycle_ndebug(max, timeout) ==
    /\ pc = "idle"
    /\ do_request
    /\ ncycles < max
    /\ StartCycle(sent, 0, <<>>, timeout, "execute_cycle")
    /\ UNCHANGED is_responding

\* ping, lines 131-138, up to the loop of receive_response
ping(S, trickle, max, timeout) ==
    /\ pc = "idle"
    /\ ncycles < max
    /\ is_responding' = FALSE
    /\ \E k \in Arrivals(trickle), s \in S :
          StartCycle(enqueue_command_ping(motor_id), k, s, timeout, "ping")

\* one receive_data call of the inner loop, line 265
receive_data_call(trickle) ==
    /\ pc = "recv"
    /\ \E k \in Arrivals(trickle) :
          LET c == Chan(recv_queue \o SubSeq(wire, 1, k), checksum, eaten)
              r == receive_data(c, syncstate, data, is_responding, motor_id, direction)
          IN  /\ wire' = SubSeq(wire, k + 1, Len(wire))
              /\ recv_queue' = r.com.q
              /\ checksum' = r.com.cs
              /\ eaten' = r.com.eaten
              /\ syncstate' = r.syncstate
              /\ data' = r.data
              /\ is_responding' = r.is_responding
              /\ ret' = r.ret
              /\ pc' = IF r.ret THEN "recv" ELSE "cond"
    /\ op' = "receive_data"
    /\ UNCHANGED <<motor_id, do_request, statistics, ctlVars, sent, t_us, timeout_us,
                   data0, stats0, controller0, stream, fresh, nexec, snapshot,
                   ncycles, ncalls>>

\* loop_again with <= for <
loop_again_inclusive(t, timeout, st) == t <= timeout /\ is_pending(st)

\* line 266: ++t_us < timeout_us and is_pending() (and com.wait_us(), always true)
loop_again(t, timeout, st) == t < timeout /\ is_pending(st)

\* the loop condition holds: wait byte_delay_us and poll again
receive_wait ==
    /\ pc = "cond"
    /\ loop_again(t_us + 1, timeout_us, syncstate)
    /\ t_us' = t_us + 1
    /\ pc' = "recv"
    /\ op' = "wait_us"
    /\ UNCHANGED <<motor_id, do_request, is_responding, data, syncstate, statistics,
                   ctlVars, comVars, timeout_us, histVars, snapshot, ncycles, ncalls>>

\* the loop condition fails: lines 268-269
receive_response_exit ==
    /\ pc = "cond"
    /\ ~loop_again(t_us + 1, timeout_us, syncstate)
    /\ t_us' = t_us + 1
    /\ statistics' = statistics_update(statistics, t_us + 1,
                                       timed_out(t_us + 1, timeout_us),
                                       ~is_data_valid(syncstate))
    /\ snapshot' = statistics'
    /\ pc' = "idle"
    /\ op' = "receive_response"
    /\ UNCHANGED <<motor_id, do_request, is_responding, data, syncstate,
                   ctlVars, comVars, timeout_us, histVars, ncycles, ncalls>>

----------------------------------------------------------------------------
(* Calls between cycles: the controller and the setters *)

\* what every such call leaves alone
Call(name) ==
    /\ pc = "idle"
    /\ op' = name
    /\ ncalls' = ncalls + 1
    /\ controller0' = controller
    /\ nexec' = IF name = "execute_controller" THEN nexec + 1 ELSE 0
    /\ UNCHANGED <<motor_id, is_responding, syncstate, comVars, loopVars, data0, stats0,
                   stream, fresh, eaten, ret, snapshot, ncycles>>

\* lines 171-208
execute_controller ==
    /\ Call("execute_controller")
    /\ controller' = controller_step.controller
    /\ err_int' = controller_step.err_int
    /\ z' = controller_step.z
    /\ target_voltage' = controller_step.target_voltage
    /\ data' = [data EXCEPT !.output_voltage = controller_step.output_voltage]
    /\ UNCHANGED <<do_request, statistics, target_position, target_csl_mode,
                   target_csl_fb, limit_lo, limit_hi, Kp, phi_disable, direction>>

\* line 129
disable ==
    /\ Call("disable")
    /\ controller' = "none"
    /\ UNCHANGED <<do_request, statistics, data, err_int, z, target_position,
                   target_voltage, target_csl_mode, target_csl_fb, limit_lo, limit_hi,
                   Kp, phi_disable, direction>>

\* line 152
set_controller_type ==
    /\ Call("set_controller_type")
    /\ \E type \in ControllerTypes : controller' = type
    /\ UNCHANGED <<do_request, statistics, data, err_int, z, target_position,
                   target_voltage, target_csl_mode, target_csl_fb, limit_lo, limit_hi,
                   Kp, phi_disable, direction>>

\* line 150
reset_statistics ==
    /\ Call("reset_statistics")
    /\ statistics' = Statistics_t
    /\ UNCHANGED <<do_request, data, ctlVars>>

\* line 156
toggle_request ==
    /\ Call("toggle_request")
    /\ do_request' = ~do_request
    /\ UNCHANGED <<statistics, data, ctlVars>>

\* line 160
set_proportional ==
    /\ Call("set_proportional")
    /\ \E p \in Gains : Kp' = p
    /\ UNCHANGED <<do_request, statistics, data, err_int, z, target_position,
                   target_voltage, target_csl_mode, target_csl_fb, limit_lo, limit_hi,
                   phi_disable, controller, direction>>

\* line 161
set_limits ==
    /\ Call("set_limits")
    /\ \E l \in Limits : limit_lo' = l[1] /\ limit_hi' = l[2]
    /\ UNCHANGED <<do_request, statistics, data, err_int, z, target_position,
                   target_voltage, target_csl_mode, target_csl_fb, Kp,
                   phi_disable, controller, direction>>

\* line 162
set_target_csl_mode ==
    /\ Call("set_target_csl_mode")
    /\ \E m \in CslModes : target_csl_mode' = m
    /\ UNCHANGED <<do_request, statistics, data, err_int, z, target_position,
                   target_voltage, target_csl_fb, limit_lo, limit_hi, Kp,
                   phi_disable, controller, direction>>

\* line 163
set_target_csl_fb ==
    /\ Call("set_target_csl_fb")
    /\ \E f \in CslFeedbacks : target_csl_fb' = f
    /\ UNCHANGED <<do_request, statistics, data, err_int, z, target_position,
                   target_voltage, target_csl_mode, limit_lo, limit_hi, Kp,
                   phi_disable, controller, direction>>

\* line 164
set_target_position ==
    /\ Call("set_target_position")
    /\ \E p \in Positions : target_position' = p
    /\ UNCHANGED <<do_request, statistics, data, err_int, z,
                   target_voltage, target_csl_mode, target_csl_fb, limit_lo, limit_hi,
                   Kp, phi_disable, controller, direction>>

\* set_target_voltage without the write to data.output_voltage
set_target_voltage_only(V) ==
    /\ Call("set_target_voltage")
    /\ \E v \in V : target_voltage' = v
    /\ UNCHANGED <<do_request, statistics, data, err_int, z, target_position,
                   target_csl_mode, target_csl_fb, limit_lo, limit_hi,
                   Kp, phi_disable, controller, direction>>

\* line 165, for a voltage drawn from V
set_target_voltage_in(V) ==
    /\ Call("set_target_voltage")
    /\ \E v \in V :
          /\ target_voltage' = v
          /\ data' = [data EXCEPT !.output_voltage = v]
    /\ UNCHANGED <<do_request, statistics, err_int, z, target_position,
                   target_csl_mode, target_csl_fb, limit_lo, limit_hi,
                   Kp, phi_disable, controller, direction>>

set_target_voltage == set_target_voltage_in(Voltages)

\* line 167
set_direction ==
    /\ Call("set_direction")
    /\ \E dir \in Directions : direction' = dir
    /\ UNCHANGED <<do_request, statistics, data, err_int, z, target_position,
                   target_voltage, target_csl_mode, target_csl_fb, limit_lo, limit_hi,
                   Kp, phi_disable, controller>>

\* line 169
set_phi_disable ==
    /\ Call("set_phi_disable")
    /\ \E phi \in PhiDisables : phi_disable' = phi
    /\ UNCHANGED <<do_request, statistics, data, err_int, z, target_position,
                   target_voltage, target_csl_mode, target_csl_fb, limit_lo, limit_hi,
                   Kp, controller, direction>>

----------------------------------------------------------------------------
(* Specifications *)

\* the whole proxy; the device's answers arrive whole
Next ==
    \/ execute_cycle(PlainStreams(motor_id), FALSE, MaxCycles, MaxResponseTime)
    \/ execute_cycle_ndebug(MaxCycles, MaxResponseTime)
    \/ execute_cycle_off
    \/ ping(PlainStreams(motor_id), FALSE, MaxCycles, PingTimeout)
    \/ receive_data_call(FALSE)
    \/ receive_wait
    \/ receive_response_exit
    \/ ncalls < MaxCalls /\ execute_controller
    \/ ncalls < MaxCalls /\ disable
    \/ ncalls < MaxCalls /\ set_controller_type
    \/ ncalls < MaxCalls /\ reset_statistics
    \/ ncalls < MaxCalls /\ toggle_request
    \/ ncalls < MaxCalls /\ set_proportional
    \/ ncalls < MaxCalls /\ set_limits
    \/ ncalls < MaxCalls /\ set_target_csl_mode
    \/ ncalls < MaxCalls /\ set_target_csl_fb
    \/ ncalls < MaxCalls /\ set_target_position
    \/ ncalls < MaxCalls /\ set_target_voltage
    \/ ncalls < MaxCalls /\ set_direction
    \/ ncalls < MaxCalls /\ set_phi_disable

Spec == Init /\ [][Next]_vars

\* the receive path alone: the first answer of the device is any of the
\* RichStreams and trickles in, later answers are plain and arrive whole
FirstStreams == IF ncycles = 0 THEN RichStreams(motor_id) ELSE PlainStreams(motor_id)

NextRecv ==
    \/ execute_cycle(FirstStreams, ncycles = 0, MaxRecvCycles, MaxResponseTime)
    \/ ping(FirstStreams, ncycles = 0, MaxRecvCycles, PingTimeout)
    \/ receive_data_call(ncycles = 1)
    \/ receive_wait
    \/ receive_response_exit

SpecRecv == Init /\ [][NextRecv]_vars

\* the control law: one cycle delivers a position (or no answer), before,
\* between or after the calls of the controller and the setters that feed it;
\* the positions are 0.0, 0.836 (above limit_hi), -0.836 (below limit_lo) and
\* 0.953 (beyond phi_disable)
CtlPosWords == {512, 940, 84, 1000}
CtlStreams == {<<>>} \cup {StateFrame(motor_id, p, 100, 512, 50, 10000) : p \in CtlPosWords}

NextCtl ==
    \/ execute_cycle(CtlStreams, FALSE, 1, MaxResponseTime)
    \/ receive_data_call(FALSE)
    \/ receive_wait
    \/ receive_response_exit
    \/ ncalls < MaxCtlCalls /\ execute_controller
    \/ ncalls < MaxCtlCalls /\ disable
    \/ ncalls < MaxCtlCalls /\ set_controller_type
    \/ ncalls < MaxCtlCalls /\ set_limits
    \/ ncalls < MaxCtlCalls /\ set_target_csl_mode
    \/ ncalls < MaxCtlCalls /\ set_target_csl_fb
    \/ ncalls < MaxCtlCalls /\ set_target_position
    \/ ncalls < MaxCtlCalls /\ set_target_voltage

SpecCtl == Init /\ [][NextCtl]_vars

\* the encoder of set-voltage frames: setters choose the voltage, the
\* direction and the mode, then one cycle encodes and sends the frame.  The
\* voltages are the multiples of 1/32 from -0.75 to 0.75 and the values next
\* to the clamp bound and to the first rounding step of the magnitude byte
EncVoltages ==
    {k * (Unit \div 32) : k \in -24..24}
    \cup {Unit \div 2 - 1, Unit \div 2 + 1, 1 - Unit \div 2, -1 - Unit \div 2}
    \cup {1, -1, 25, 26, -25, -26}

NextEnc ==
    \/ ncalls < MaxEncCalls /\ ncycles = 0 /\ set_target_voltage_in(EncVoltages)
    \/ ncalls < MaxEncCalls /\ ncycles = 0 /\ set_direction
    \/ ncalls < MaxEncCalls /\ ncycles = 0 /\ set_controller_type
    \/ execute_cycle({<<>>}, FALSE, 1, MaxResponseTime)
    \/ receive_data_call(FALSE)
    \/ receive_wait
    \/ receive_response_exit

SpecEnc == Init /\ [][NextEnc]_vars

\* resynchronisation: one cycle whose answer is a well-formed frame behind up
\* to MaxStray stray bytes: zero, the two response command bytes, the sync byte
StrayBytes == {0, 128, 225, 255}
StrayPrefixes == UNION {[1..n -> StrayBytes] : n \in 0..MaxStray}
SyncFrames(id) == {StateFrame(id, 940, 100, 512, 50, 10000),
                   StateFrame(id, 24, 100, 512, 50, 65436),
                   PingFrame(id)}
StrayStreams == {p \o f : p \in StrayPrefixes, f \in SyncFrames(motor_id)}

NextSync ==
    \/ execute_cycle(StrayStreams, FALSE, 1, MaxResponseTime)
    \/ ping(StrayStreams, FALSE, 1, PingTimeout)
    \/ receive_data_call(FALSE)
    \/ receive_wait
    \/ receive_response_exit

SpecSync == Init /\ [][NextSync]_vars

\* one cycle on an answer that trickles in, with budgets long enough for
\* byte-by-byte arrival: no answer, a well-formed frame, a frame for another
\* id, an unknown command, a frame with a bad checksum
TrickleStreams ==
    {<<>>} \cup WellFormedStateFrames(motor_id)
    \cup {PingFrame(motor_id), PingFrame(motor_id + 1), <<255, 255, 192, motor_id, 61>>,
          Corrupt(StateFrame(motor_id, 1000, 100, 512, 50, 10000), 15, 0)}

NextTrickle ==
    \/ execute_cycle(TrickleStreams, TRUE, 1, TrickleResponseTime)
    \/ ping(TrickleStreams, TRUE, 1, TricklePingTimeout)
    \/ receive_data_call(TRUE)
    \/ receive_wait
    \/ receive_response_exit

SpecTrickle == Init /\ [][NextTrickle]_vars

----------------------------------------------------------------------------
(* Properties *)

\* the measured fields of Device State agree
SameDevice(d, e) ==
    /\ d.position = e.position
    /\ d.current = e.current
    /\ d.voltage_backemf = e.voltage_backemf
    /\ d.voltage_supply = e.voltage_supply
    /\ d.temperature = e.temperature

\* f is FF FF 80 id, five words and a checksum byte that validates
IsStateFrame(f, id) ==
    /\ Len(f) = 15
    /\ f[1] = 255 /\ f[2] = 255 /\ f[3] = 128 /\ f[4] = id
    /\ SumSeq(f) % 256 = 0

\* f is FF FF E1 id and a checksum byte that validates
IsPingFrame(f, id) ==
    /\ Len(f) = 5
    /\ f[1] = 255 /\ f[2] = 255 /\ f[3] = 225 /\ f[4] = id
    /\ SumSeq(f) % 256 = 0

\* receive_response has just returned and every byte of the answer was read
Received == op = "receive_response" /\ wire = <<>>

\* the parser has consumed a whole state-data frame carrying this motor's id
\* and resolved it to invalid: its checksum did not validate
ChecksumFailed ==
    /\ syncstate = "invalid"
    /\ Len(eaten) = 15
    /\ eaten[3] = 128
    /\ eaten[4] = motor_id

\* C1: whenever the parser has resolved a state-data frame with this motor's
\* id to invalid on its checksum, position, current, voltage_backemf,
\* voltage_supply and temperature are what they were when the cycle started.
C1_ChecksumFailKeepsState == ChecksumFailed => SameDevice(data, data0)

\* the answer of this cycle is a state-data frame for another id whose
\* checksum validates, fed to an empty channel
ForeignFrame ==
    /\ fresh
    /\ \E id \in 0..255 : id # motor_id /\ IsStateFrame(stream, id)

\* C3: a full state-data frame with a valid checksum and another motor's id
\* never brings the parser to completed, leaves the measured fields as they
\* were, and has the parser in invalid once the frame has been received.
C3_MismatchedId ==
    ForeignFrame =>
        /\ syncstate # "completed"
        /\ SameDevice(data, data0)
        /\ (Received => syncstate = "invalid")

C3_Witness == ForeignFrame /\ Received /\ syncstate = "invalid"

\* the byte a well-formed state-data frame for id must carry at place i, given
\* the other bytes of s
Expected(s, i, id) ==
    CASE i \in {1, 2} -> 255
      [] i = 3        -> 128
      [] i = 4        -> id
      [] OTHER        -> (s[i] + 256 - (SumSeq(s) % 256)) % 256

\* s is a well-formed state-data frame for id with exactly byte i changed
CorruptedAt(s, i, id) ==
    /\ Len(s) = 15
    /\ s[i] # Expected(s, i, id)
    /\ IsStateFrame(Corrupt(s, i, Expected(s, i, id)), id)

\* C4 as claimed: a well-formed state-data frame with any one byte but the
\* checksum byte changed never completes and ends in invalid.
C4_AnyByte ==
    (fresh /\ \E i \in 1..14 : CorruptedAt(stream, i, motor_id)) =>
        /\ syncstate # "completed"
        /\ (Received => syncstate = "invalid")

\* the changed byte is the id byte or a payload byte, or it is the command
\* byte and its new value is not 0xE1
CorruptedBody ==
    /\ fresh
    /\ \E i \in 3..14 : CorruptedAt(stream, i, motor_id) /\ ~(i = 3 /\ stream[3] = 225)

\* C4 amended: a well-formed state-data frame in which the id byte or one
\* payload byte is changed, or the command byte is changed to a value other
\* than 0xE1, never completes and, once received, has the parser in invalid.
C4_BodyByte ==
    CorruptedBody =>
        /\ syncstate # "completed"
        /\ (Received => syncstate = "invalid")

C4_Witness ==
    /\ fresh
    /\ \E i \in 5..14 : CorruptedAt(stream, i, motor_id)
    /\ Received
    /\ syncstate = "invalid"

\* the parser run on a queue that already holds every byte: receive_data is
\* called until it returns false
RECURSIVE AllAtOnce(_, _, _, _)
AllAtOnce(c, st, d, resp) ==
    LET r == receive_data(c, st, d, resp, motor_id, direction)
    IN  IF r.ret THEN AllAtOnce(r.com, r.syncstate, r.data, r.is_responding) ELSE r

\* the answer of this cycle is a well-formed frame for this motor
ValidAnswer ==
    /\ fresh
    /\ IsStateFrame(stream, motor_id) \/ IsPingFrame(stream, motor_id)

\* C5: when a well-formed frame has been received, however its bytes were
\* spread over the receive_data calls, the parser state and the decoded data
\* are those of parsing the whole frame at once from the cycle's start state.
C5_PartialArrival ==
    (ValidAnswer /\ Received) =>
        LET w == AllAtOnce(Chan(stream, 0, <<>>), "sync0", data0, FALSE)
        IN  /\ syncstate = w.syncstate
            /\ data = w.data
            /\ is_responding = w.is_responding

\* a state-data frame that arrived over at least twelve waits and was decoded
C5_Witness ==
    /\ ValidAnswer /\ Received
    /\ IsStateFrame(stream, motor_id)
    /\ t_us > 12
    /\ syncstate = "completed"
    /\ ~SameDevice(data, data0)

\* the bytes consumed since the sync pair began are a whole frame of a known
\* command, with this motor's id, that sums to zero
Validated ==
    /\ Len(eaten) >= 4
    /\ eaten[3] \in {128, 225}
    /\ eaten[4] = motor_id
    /\ Len(eaten) = IF eaten[3] = 128 THEN 15 ELSE 5
    /\ SumSeq(eaten) % 256 = 0

\* a step that resolves the parser, or leaves it in processing
ResolvesRight ==
    /\ (syncstate' # syncstate /\ syncstate' \in {"completed", "invalid"}) =>
          /\ syncstate = "processing"
          /\ op' = "receive_data"
          /\ (syncstate' = "completed") <=> Validated'
    /\ (syncstate = "processing" /\ op' = "receive_data" /\ syncstate' = "processing") =>
          \/ recv_queue' = <<>>
          \/ Head(recv_queue') = 128 /\ Len(recv_queue') <= 12
          \/ Head(recv_queue') = 225 /\ Len(recv_queue') <= 2

\* C6: the parser enters completed or invalid only from processing, in a
\* receive_data call; it enters completed exactly when a whole frame of command
\* 0x80 or 0xE1 with this motor's id was consumed and its checksum validates,
\* and invalid otherwise; it stays in processing only while the frame of a
\* known command is still incomplete.
C6_CompletedIff == [][ResolvesRight]_vars

C6_Witness == syncstate = "completed" /\ Validated /\ eaten[3] = 128

\* C7: when receive_response returns with the timeout reached and the parser
\* not in completed, all six fields of data are what they were at its start.
C7_TimeoutKeepsState ==
    (op = "receive_response" /\ t_us >= timeout_us /\ syncstate # "completed") =>
        /\ SameDevice(data, data0)
        /\ data.output_voltage = data0.output_voltage

\* C8: a cycle that ends with the parser in completed is not counted as a
\* timeout, and a cycle that ends with the parser still pending is.
C8_TimeoutRecorded ==
    op = "receive_response" =>
        /\ syncstate = "completed" =>
              statistics.timeouts = stats0.timeouts /\ ~statistics.faulted
        /\ syncstate \notin {"completed", "invalid"} =>
              statistics.timeouts = stats0.timeouts + 1

\* recv_queue' is recv_queue with newly read bytes appended: nothing was consumed
NothingConsumed ==
    /\ Len(recv_queue') + Len(wire') = Len(recv_queue) + Len(wire)
    /\ SubSeq(recv_queue', 1, Len(recv_queue)) = recv_queue

\* a step taken with the parser in completed or invalid
StaysTerminal ==
    syncstate \in {"completed", "invalid"} =>
        /\ (op' = "receive_data") =>
              /\ ret' = FALSE
              /\ NothingConsumed
              /\ syncstate' = syncstate
              /\ data' = data
        /\ (syncstate' # syncstate) =>
              /\ syncstate' = "sync0"
              /\ op' \in {"execute_cycle", "ping"}

\* C9: with the parser in completed or invalid, a receive_data call returns
\* false, consumes nothing and changes neither the parser state nor data; the
\* parser state changes only to sync0, at the start of the next receive cycle.
C9_Terminal == [][StaysTerminal]_vars

\* a receive_data call was made in invalid with bytes still in the queue
C9_Witness ==
    /\ syncstate = "invalid"
    /\ op = "receive_data"
    /\ ret = FALSE
    /\ Len(eaten) = 4
    /\ recv_queue # <<>>

\* the counter stays within the budget, and at the return the parser is done
\* or the budget is used up, the recorded time being within [1, timeout_us]
LoopBounds ==
    /\ pc # "idle" => t_us < timeout_us
    /\ op = "receive_response" =>
          /\ syncstate \in {"completed", "invalid"} \/ t_us = timeout_us
          /\ statistics.response_time_us \in 1..timeout_us
          /\ statistics.response_time_us = t_us

\* inbound bytes not yet consumed
Pending == Len(recv_queue) + Len(wire)

\* every step inside receive_response counts t_us up towards the budget, or
\* is a receive_data call that consumes a byte, or is the receive_data call
\* that ends the inner loop: no step can be repeated for ever
LoopProgress ==
    pc # "idle" =>
        \/ t_us' = t_us + 1 /\ t_us' <= timeout_us /\ pc = "cond"
        \/ t_us' = t_us /\ pc = "recv" /\ ret' /\ pc' = "recv" /\ Pending' < Pending
        \/ t_us' = t_us /\ pc = "recv" /\ ~ret' /\ pc' = "cond" /\ Pending' = Pending

\* C10: every receive_response call returns: each of its steps either counts
\* t_us up, which stays below timeout_us inside the loop, or consumes one of
\* the finitely many inbound bytes, or leaves the inner loop; when it returns
\* the parser is in completed or invalid or t_us equals timeout_us, and the
\* recorded response time is within [1, timeout_us].
C10_Terminates == [](LoopBounds) /\ [][LoopProgress]_vars

\* a call that returned on the timeout with the parser still pending
C10_Witness ==
    /\ op = "receive_response"
    /\ syncstate \notin {"completed", "invalid"}
    /\ t_us = timeout_us
    /\ statistics.response_time_us = timeout_us

\* |position| >= phi_disable
BeyondCutoff == data.position >= phi_disable \/ -data.position >= phi_disable

\* C2: after an execute_controller call made with |position| >= phi_disable
\* the controller mode is none, whatever it was before; and the mode leaves
\* none only in a set_controller_type call.
C2_SafetyCutoff ==
    /\ []((op = "execute_controller" /\ BeyondCutoff) => controller = "none")
    /\ [][(controller = "none" /\ controller' # "none")
              => op' = "set_controller_type"]_vars

\* the cutoff has just overridden a mode other than none
C2_Witness ==
    /\ op = "execute_controller"
    /\ BeyondCutoff
    /\ controller0 # "none"
    /\ controller = "none"

----------------------------------------------------------------------------
(* The liveness flag *)

\* the running receive cycle was started by ping: the frame sent last is FF FF E0 id chk
PingCycle == Len(sent) = 5 /\ sent[3] = 224

\* a step that writes a new value into is_responding is ping itself or a
\* receive_data call inside the receive window of a ping
FlagWrittenByPing ==
    is_responding' # is_responding
        => \/ op' = "ping"
           \/ op' = "receive_data" /\ PingCycle

\* C11: the liveness flag reflects the most recent ping: is_active() is true
\* exactly when the most recent ping() received a valid ping response with
\* this id inside its own receive window, and no operation other than
\* ping() ever changes the flag
C11_OnlyPingSetsLiveness == [][FlagWrittenByPing]_vars

----------------------------------------------------------------------------
(* Frame selection *)

IsSetVoltageFrame(f, id) ==
    Len(f) = 6 /\ f[1] = 255 /\ f[2] = 255 /\ f[3] \in {176, 177} /\ f[4] = id
IsDataRequestFrame(f, id) ==
    Len(f) = 5 /\ f[1] = 255 /\ f[2] = 255 /\ f[3] = 192 /\ f[4] = id

\* the frame an execute_cycle step hands to the channel fits the controller mode
FrameSelected ==
    op' = "execute_cycle"
        => IF controller # "none" THEN IsSetVoltageFrame(sent', motor_id)
                                  ELSE IsDataRequestFrame(sent', motor_id)

\* C12: every execute_cycle made with requests enabled encodes one outgoing
\* frame: a set-voltage frame (0xB0/0xB1) exactly when the controller mode is
\* not none, a data-request frame (0xC0) otherwise; in mode none no
\* set-voltage frame is encoded
C12_FrameSelection == [][FrameSelected]_vars

----------------------------------------------------------------------------
(* The control law *)

\* gi * position for the gi of the current target_csl_mode
GiPhi == Mul(csl_gi(target_csl_mode), data.position)

\* execute_controller has just run its csl branch, entered in mode csl, at a
\* position above limit_hi (and, the mode being still csl, short of phi_disable)
CslAbove ==
    /\ op = "execute_controller"
    /\ controller0 = "csl"
    /\ controller = "csl"
    /\ data.position > limit_hi

\* C13: in mode csl with the position held above limit_hi (and below
\* phi_disable), z <= gi * position after every one of the repeated
\* execute_controller calls, for every target_csl_mode and every feedback
\* gain target_csl_fb that is not negative
C13_CslClamp == CslAbove /\ target_csl_fb >= 0 => z <= GiPhi

\* the csl branch has run twice in a row above limit_hi on a positive mode
\* and a positive feedback gain, and z sits at the bound gi * position
C13_Witness ==
    /\ CslAbove
    /\ nexec >= 2
    /\ target_csl_fb > 0
    /\ target_csl_mode > 0
    /\ z = GiPhi

----------------------------------------------------------------------------
(* Requests toggled off *)

\* an execute_cycle made with requests off returns a zeroed snapshot and
\* leaves the channel, the parser, Device State, the liveness flag and the
\* accumulated statistics as they were; toggle_request inverts do_request
OffIsNoOp ==
    /\ op' = "execute_cycle_off"
          => /\ ~do_request
             /\ snapshot'.errors = 0 /\ snapshot'.timeouts = 0 /\ ~snapshot'.faulted
             /\ snapshot'.response_time_us = 0 /\ snapshot'.avg_resp_time_us = 0
             /\ snapshot'.max_resp_time_us = 0
             /\ sent' = sent /\ wire' = wire
             /\ recv_queue' = recv_queue /\ checksum' = checksum
             /\ syncstate' = syncstate
             /\ data' = data
             /\ is_responding' = is_responding
             /\ statistics' = statistics
             /\ do_request' = do_request
    /\ op' = "toggle_request" => do_request' = ~do_request
    /\ op' = "execute_cycle" => do_request

\* C14: with requests toggled off execute_cycle is a no-op: it returns a
\* zeroed statistics snapshot, sends and reads nothing and leaves the parser
\* state, Device State, the liveness flag and the accumulated statistics
\* unchanged; toggle_request inverts the switch, so calling it twice restores
\* normal cycling
C14_OffIsNoOp == [][OffIsNoOp]_vars

\* an execute_cycle with requests off has returned its zeroed snapshot while
\* the proxy holds statistics and a position from an earlier cycle
C14_Witness ==
    /\ op = "execute_cycle_off"
    /\ ~do_request
    /\ snapshot.response_time_us = 0
    /\ statistics.response_time_us > 0
    /\ data.position # 0

----------------------------------------------------------------------------
(* The set-voltage frame *)

\* target_voltage restricted to [-0.5, 0.5], and with the direction applied
ClampedHalf ==
    IF 2 * target_voltage > Unit THEN Unit \div 2
    ELSE IF 2 * target_voltage < -Unit THEN -(Unit \div 2)
    ELSE target_voltage
Commanded == ClampedHalf * direction

\* the reference decoder: the signed magnitude of the frame f, in 1/255
Decoded(f) == IF f[3] = 176 THEN f[5] ELSE -f[5]

\* execute_cycle has just encoded and sent a frame in a mode other than none
SetVoltageSent == op = "execute_cycle" /\ controller # "none"

\* C15: the set-voltage frame for a requested voltage v and a direction of
\* +1 or -1 carries the command byte 0xB0 when clamp(v, 0.5) * direction >= 0
\* and 0xB1 otherwise, and the magnitude byte round(|clamp(v, 0.5)| * 255),
\* which lies in 0..128; decoding the frame gives the sign and the magnitude
\* of the clamped, direction-corrected voltage to within 1/255
C15_SetVoltageEncoding ==
    SetVoltageSent =>
        /\ Len(sent) = 6
        /\ sent[1] = 255 /\ sent[2] = 255 /\ sent[4] = motor_id
        /\ sent[3] = IF Commanded >= 0 THEN 176 ELSE 177
        /\ sent[5] \in 0..128
        /\ 2 * Abs(255 * Abs(ClampedHalf) - sent[5] * Unit) <= Unit
        /\ Abs(Decoded(sent) * Unit - 255 * Commanded) <= Unit
        /\ Decoded(sent) > 0 => Commanded > 0
        /\ Decoded(sent) < 0 => Commanded < 0

\* a voltage below -0.5 was requested with the direction reversed: the frame
\* commands the full magnitude 128 forward
C15_Witness ==
    /\ SetVoltageSent
    /\ 2 * target_voltage < -Unit
    /\ direction = -1
    /\ sent[3] = 176
    /\ sent[5] = 128

\* C16: after every execute_controller call in position mode the integral
\* accumulator err_int lies within [limit_lo, limit_hi] for the configured
\* limits, and after every call that ends in any other mode (the safety
\* cutoff having forced none included) err_int is 0
C16_IntegratorWithinLimits ==
    op = "execute_controller" =>
        IF controller = "position"
        THEN limit_lo <= err_int /\ err_int <= limit_hi
        ELSE err_int = 0

\* execute_controller has just ended in a mode other than csl
EndedOutsideCsl == op = "execute_controller" /\ controller # "csl"

\* a call that runs the csl branch on z = gi * position computes u = 0:
\* it commands the voltage 0.75 * 0 and leaves z where it was
CslStartsAtRest ==
    op' = "execute_controller" /\ controller' = "csl" /\ z = GiPhi
        => /\ target_voltage' = 0
           /\ data'.output_voltage = 0
           /\ z' = z

\* C17: after every execute_controller call that ends in a mode other than
\* csl (none, voltage, position, or csl disabled by the cutoff in that call)
\* z = gi * position for the gi of the current target_csl_mode; so the first
\* csl call after a mode switch, with position and target_csl_mode
\* unchanged, computes u = 0
C17_ModeSwitchContinuity == [](EndedOutsideCsl => z = GiPhi) /\ [][CslStartsAtRest]_vars

\* the first csl call after a switch of mode, on a positive mode with a
\* feedback gain and away from position 0: it found z = gi * position and
\* commanded no voltage
C17_Witness ==
    /\ op = "execute_controller"
    /\ controller = "csl"
    /\ nexec = 1
    /\ target_csl_mode > 0
    /\ target_csl_fb # 0
    /\ data.position # 0
    /\ z = GiPhi
    /\ target_voltage = 0

\* a controller call that runs in voltage or none mode keeps both voltages;
\* no step of the receive path writes output_voltage
VoltagesKept ==
    /\ op' = "execute_controller" /\ controller' \in {"voltage", "none"}
          => /\ target_voltage' = target_voltage
             /\ data'.output_voltage = data.output_voltage
    /\ op' \in {"execute_cycle", "ping", "receive_data", "wait_us", "receive_response"}
          => data'.output_voltage = data.output_voltage

\* C18: in voltage mode and in none mode execute_controller changes neither
\* output_voltage nor target_voltage, which keep the value of the last
\* set_target_voltage over any number of controller calls; target_voltage
\* equals output_voltage in every reachable state; the parser never writes
\* output_voltage
C18_VoltagePassThrough ==
    [](target_voltage = data.output_voltage) /\ [][VoltagesKept]_vars

\* the controller has run twice in a row in voltage mode on a position the
\* parser decoded, and the voltage set before is still commanded
C18_Witness ==
    /\ op = "execute_controller"
    /\ controller = "voltage"
    /\ nexec >= 2
    /\ data.position # 0
    /\ target_voltage \in Voltages
    /\ data.output_voltage = target_voltage

----------------------------------------------------------------------------
(* Statistics *)

\* the cycle that has just ended timed out: the budget ran out with the
\* parser still seeking or processing a frame
CycleTimedOut == syncstate \notin {"completed", "invalid"}

\* what the cycle that has just ended added to the statistics
CycleAccounted ==
    op = "receive_response" =>
        /\ statistics.errors =
              stats0.errors + (IF syncstate = "invalid" THEN 1 ELSE 0)
        /\ statistics.timeouts =
              stats0.timeouts + (IF CycleTimedOut THEN 1 ELSE 0)
        /\ statistics.faulted = (CycleTimedOut \/ syncstate = "invalid")
        /\ statistics.max_resp_time_us >= statistics.response_time_us

\* no step but reset_statistics lowers a counter or the high-water mark
CountersGrow ==
    op' # "reset_statistics" =>
        /\ statistics'.errors >= statistics.errors
        /\ statistics'.timeouts >= statistics.timeouts
        /\ statistics'.max_resp_time_us >= statistics.max_resp_time_us

\* C19: a receive cycle adds 1 to errors exactly when it ends with the parser
\* in invalid, adds 1 to timeouts exactly when it timed out, sets faulted to
\* (timed out or invalid) of that cycle alone and keeps max_resp_time_us >=
\* response_time_us; apart from reset_statistics, errors, timeouts and
\* max_resp_time_us never decrease
C19_StatisticsAccounting == [](CycleAccounted) /\ [][CountersGrow]_vars

----------------------------------------------------------------------------
(* Resynchronisation *)

\* p holds no two consecutive sync bytes and does not end in a sync byte
StrayOk(p) ==
    \A i \in 1..Len(p) : p[i] = 255 => i < Len(p) /\ p[i + 1] # 255

\* the answer of this cycle is stray bytes of that kind followed by the frame f
\* of n bytes
StrayThen(n) ==
    /\ fresh
    /\ Len(stream) >= n
    /\ StrayOk(SubSeq(stream, 1, Len(stream) - n))
LastBytes(n) == SubSeq(stream, Len(stream) - n + 1, Len(stream))

\* the Device State a state-data frame f decodes to
FrameDecoded(f, d) ==
    /\ d.position = ((f[5] * 256 + f[6]) - 512) * 25 * direction
    /\ d.current = f[7] * 256 + f[8]
    /\ d.voltage_backemf = ((f[9] * 256 + f[10]) - 512) * 25
    /\ d.voltage_supply = f[11] * 256 + f[12]
    /\ d.temperature = IF f[13] >= 128 THEN f[13] * 256 + f[14] - 65536
                                       ELSE f[13] * 256 + f[14]
    /\ d.output_voltage = data0.output_voltage

\* a frame behind stray bytes is parsed as the frame alone would be
ResyncCompletes ==
    /\ (Received /\ StrayThen(15) /\ IsStateFrame(LastBytes(15), motor_id))
          => syncstate = "completed" /\ FrameDecoded(LastBytes(15), data)
    /\ (Received /\ StrayThen(5) /\ IsPingFrame(LastBytes(5), motor_id))
          => syncstate = "completed" /\ is_responding /\ data = data0

\* the bytes waiting for the parser: read already, or still on the line
Inbound == recv_queue \o wire

\* a receive_data call that finds a byte other than 0xFF while seeking the
\* first or the second sync byte drops that byte alone, writes nothing and
\* seeks the first sync byte next
StrayDropped ==
    (/\ op' = "receive_data"
     /\ ret'
     /\ syncstate \in {"sync0", "sync1"}
     /\ Inbound # <<>>
     /\ Head(Inbound) # 255)
        => /\ recv_queue' \o wire' = Tail(Inbound)
           /\ syncstate' = "sync0"
           /\ data' = data
           /\ is_responding' = is_responding

\* C20: a well-formed frame for this motor id that follows, in the inbound
\* queue, stray bytes with no two consecutive 0xFF and no 0xFF at their end
\* is parsed to completed with the Device State the frame alone decodes to;
\* in sync0 a byte other than 0xFF is dropped and the state stays sync0, in
\* sync1 a byte other than 0xFF is dropped and the state falls back to sync0
C20_Resynchronisation == [](ResyncCompletes) /\ [][StrayDropped]_vars

\* a state-data frame was decoded behind the stray bytes FF 80 E1: a lone
\* sync byte and the two response command bytes
C20_Witness ==
    /\ Received
    /\ StrayThen(15)
    /\ IsStateFrame(LastBytes(15), motor_id)
    /\ SubSeq(stream, 1, Len(stream) - 15) = <<255, 128, 225>>
    /\ syncstate = "completed"
    /\ data.position # 0

=============================================================================
